---- MODULE Spec2Model ----
(***************************************************************************)
(* The e-commerce backend of src/main.py and src/schemas.py: two catalog   *)
(* collections (butcheritem, groceryitem), the order collection, the admin *)
(* password gate and the order status update.                              *)
(*                                                                         *)
(* A JSON body is a record whose domain is the set of keys the caller      *)
(* sent.  Money and weights are integers (cents, tenths of a kilogram).    *)
(* Python's None is NoneStr in a str-typed field and NoneTime in a         *)
(* datetime-typed field.                                                   *)
(***************************************************************************)
EXTENDS Integers, Sequences, FiniteSets, TLC

\* db           TRUE when the database connection was established at import
\*              (main.py:8, tested at main.py:147), fixed for the process
\* butcheritem  the documents of collection "butcheritem", in storage order
\* groceryitem  the documents of collection "groceryitem", in storage order
\* order        the documents of collection "order", in storage order
\* last         the last request handled and the response it got
\* pre          the three collections as they were when that request began
VARIABLES db, butcheritem, groceryitem, order, last, pre

vars == <<db, butcheritem, groceryitem, order, last, pre>>

\* ------------------------------------------------------------------ bounds

\* Documents the store holds, all three collections together.
MaxDocs == 2

\* --------------------------------------------------------------- constants

admin_pw == "admin123"

Passwords == {"admin123", "Admin123"}

StatusLabels == {"Pending", "Confirmed", "Ready for Pickup", "Delivered"}

PaymentMethods == {"Cash on Delivery", "Card on Delivery"}

NoneStr == "None"

NoneTime == [kind |-> "None", t |-> 0]

Now == [kind |-> "datetime", t |-> 1]

Has(p, k) == k \in DOMAIN p

Get(p, k, d) == IF Has(p, k) THEN p[k] ELSE d

\* ------------------------------------------------------- identifiers, time

\* bson.ObjectId values and their 24-hex-digit string form.  A path string
\* is [hex |-> TRUE, n |-> k] when it is the hex form of ObjectId k and
\* [hex |-> FALSE, n |-> 0] when it is not a valid ObjectId string.
ObjectId(n) == [kind |-> "ObjectId", n |-> n]

str(oid) == [hex |-> TRUE, n |-> oid.n]

ObjectIdValid(s) == s.hex

ObjectIdOf(s) == ObjectId(s.n)

isoformat(d) == [kind |-> "isostr", t |-> d.t]

hasattr_isoformat(v) == v.kind = "datetime"

\* ---------------------------------------------------------------- schemas

ButcherItemValid(p) ==
    /\ Has(p, "title")
    /\ Has(p, "price_per_kg")
    /\ p.price_per_kg >= 0

\* Variant: available defaults to False.
ButcherItem_DefaultUnavailable(p) ==
    [title |-> p.title,
     description |-> Get(p, "description", NoneStr),
     price_per_kg |-> p.price_per_kg,
     available |-> Get(p, "available", FALSE),
     image |-> Get(p, "image", NoneStr)]

ButcherItem(p) ==
    [title |-> p.title,
     description |-> Get(p, "description", NoneStr),
     price_per_kg |-> p.price_per_kg,
     available |-> Get(p, "available", TRUE),
     image |-> Get(p, "image", NoneStr)]

GroceryItemValid(p) ==
    /\ Has(p, "title")
    /\ Has(p, "price")
    /\ p.price >= 0

GroceryItem(p) ==
    [title |-> p.title,
     description |-> Get(p, "description", NoneStr),
     price |-> p.price,
     available |-> Get(p, "available", TRUE),
     image |-> Get(p, "image", NoneStr)]

OrderItemValid(l) ==
    /\ Has(l, "type") /\ l.type \in {"butcher", "grocery"}
    /\ Has(l, "item_id")
    /\ Has(l, "title")
    /\ Has(l, "unit_price") /\ l.unit_price >= 0
    /\ (Has(l, "quantity") => l.quantity >= 1)
    /\ (Has(l, "weight_kg") => l.weight_kg >= 1)
    /\ Has(l, "subtotal") /\ l.subtotal >= 0

OrderItem(l) ==
    [type |-> l.type,
     item_id |-> l.item_id,
     title |-> l.title,
     unit_price |-> l.unit_price,
     quantity |-> Get(l, "quantity", 0),
     weight_kg |-> Get(l, "weight_kg", 0),
     subtotal |-> l.subtotal]

\* Variant: status typed str instead of the Literal of four labels.
OrderValid_AnyStatus(p) ==
    /\ Has(p, "customer_name")
    /\ Has(p, "phone")
    /\ Has(p, "address")
    /\ Has(p, "payment_method") /\ p.payment_method \in PaymentMethods
    /\ Has(p, "items") /\ \A i \in 1..Len(p.items) : OrderItemValid(p.items[i])
    /\ Has(p, "total") /\ p.total >= 0

OrderValid(p) ==
    /\ Has(p, "customer_name")
    /\ Has(p, "phone")
    /\ Has(p, "address")
    /\ Has(p, "payment_method") /\ p.payment_method \in PaymentMethods
    /\ (Has(p, "status") => p.status \in StatusLabels)
    /\ Has(p, "items") /\ \A i \in 1..Len(p.items) : OrderItemValid(p.items[i])
    /\ Has(p, "total") /\ p.total >= 0

Order(p) ==
    [customer_name |-> p.customer_name,
     phone |-> p.phone,
     address |-> p.address,
     payment_method |-> p.payment_method,
     status |-> Get(p, "status", "Pending"),
     items |-> [i \in 1..Len(p.items) |-> OrderItem(p.items[i])],
     total |-> p.total]

\* ------------------------------------------------- document store adapter

\* database.create_document: the validated record is stored as one new
\* document at the end of the collection with a store-assigned _id and the
\* two timestamp fields.
create_document(coll, record) ==
    Append(coll, record @@ [_id |-> ObjectId(Len(coll) + 1),
                            created_at |-> Now,
                            updated_at |-> Now])

\* database.get_documents: the whole collection in storage order.
get_documents(coll) == coll

\* pymongo update_one with a $set of status and updated_at: the first
\* document whose _id matches is rewritten, the others are not.
Matching(coll, oid) == {i \in 1..Len(coll) : coll[i]._id = oid}

matched_count(coll, oid) == IF Matching(coll, oid) = {} THEN 0 ELSE 1

FirstMatch(coll, oid) ==
    CHOOSE i \in Matching(coll, oid) : \A j \in Matching(coll, oid) : i <= j

\* Variant: the $set is applied with an empty filter, to every document.
update_one_Many(coll, oid, status) ==
    IF Matching(coll, oid) = {} THEN coll
    ELSE [i \in 1..Len(coll) |->
              [coll[i] EXCEPT !.status = status, !.updated_at = NoneTime]]

update_one(coll, oid, status) ==
    IF Matching(coll, oid) = {} THEN coll
    ELSE [coll EXCEPT ![FirstMatch(coll, oid)] =
              [@ EXCEPT !.status = status, !.updated_at = NoneTime]]

\* ------------------------------------------------------------ main helpers

serialize_doc(doc) ==
    [doc EXCEPT !._id = str(@),
                !.created_at = IF hasattr_isoformat(@) THEN isoformat(@) ELSE @,
                !.updated_at = IF hasattr_isoformat(@) THEN isoformat(@) ELSE @]

Serialized(docs) == [i \in 1..Len(docs) |-> serialize_doc(docs[i])]

\* Variant: the comparison never raises.
verify_admin_Any(password) == TRUE

verify_admin(password) == password = admin_pw

ButcherKeys == {"title", "description", "price_per_kg", "available", "image"}

GroceryKeys == {"title", "description", "price", "available", "image"}

Project(d, keys) == [k \in keys |-> d[k]]

\* ------------------------------------------------------------------ inputs

ButcherPayloads ==
    { [title |-> "Ribeye", price_per_kg |-> 2500],
      [title |-> "Lamb Chops", description |-> "Fresh", price_per_kg |-> 0,
       available |-> FALSE, image |-> "http://img/lamb"],
      [title |-> "Ribeye", price_per_kg |-> -1],
      [price_per_kg |-> 500] }

GroceryPayloads ==
    { [title |-> "Milk", price |-> 350, available |-> TRUE],
      [title |-> "Rice", description |-> "1 kg bag", price |-> 0,
       available |-> FALSE, image |-> "http://img/rice"],
      [title |-> "Milk", price |-> -1],
      [price |-> 100] }

MilkLine ==
    [type |-> "grocery", item_id |-> "g1", title |-> "Milk",
     unit_price |-> 350, quantity |-> 2, subtotal |-> 700]

BadLine ==
    [type |-> "grocery", item_id |-> "g1", title |-> "Milk",
     unit_price |-> 350, quantity |-> 0, subtotal |-> 0]

CashOrder ==
    [customer_name |-> "Ann", phone |-> "555", address |-> "1 Main St",
     payment_method |-> "Cash on Delivery", items |-> <<>>, total |-> 0]

CardOrder ==
    [customer_name |-> "Bob", phone |-> "777", address |-> "2 High St",
     payment_method |-> "Card on Delivery", items |-> <<MilkLine>>,
     total |-> 700]

WithStatus(p, s) == p @@ [status |-> s]

OrderPayloads ==
    { CashOrder,
      WithStatus(CardOrder, "Delivered"),
      WithStatus(CashOrder, "Shipped"),
      WithStatus([CardOrder EXCEPT !.payment_method = "Bitcoin"], "Pending"),
      [CashOrder EXCEPT !.total = -1],
      [CashOrder EXCEPT !.items = <<BadLine>>] }

StatusInputs == StatusLabels \cup {"Shipped"}

BadId == [hex |-> FALSE, n |-> 0]

OrderIds == {str(ObjectId(n)) : n \in 0..MaxDocs} \cup {BadId}

\* ------------------------------------------------------------------- state

Stored == Len(butcheritem) + Len(groceryitem) + Len(order)

Snapshot ==
    [butcheritem |-> butcheritem, groceryitem |-> groceryitem, order |-> order]

NoId == [hex |-> FALSE, n |-> 0]

Response(op, req, code, body, id, was) ==
    [op |-> op, req |-> req, code |-> code, body |-> body, id |-> id, was |-> was]

Init ==
    /\ db \in BOOLEAN
    /\ butcheritem = <<>>
    /\ groceryitem = <<>>
    /\ order = <<>>
    /\ last = Response("start", <<>>, 200, <<>>, NoId, "-")
    /\ pre = Snapshot

Fail(op, req, code) ==
    /\ last' = Response(op, req, code, <<>>, NoId, "-")
    /\ pre' = Snapshot
    /\ UNCHANGED <<db, butcheritem, groceryitem, order>>

Reply(op, req, body) ==
    /\ last' = Response(op, req, 200, body, NoId, "-")
    /\ pre' = Snapshot
    /\ UNCHANGED <<db, butcheritem, groceryitem, order>>

\* --------------------------------------------------------------- inventory

list_butcher_items ==
    IF ~db THEN Fail("list_butcher_items", <<>>, 500)
    ELSE Reply("list_butcher_items", <<>>,
               [i \in 1..Len(get_documents(butcheritem)) |->
                   ButcherItem(Project(get_documents(butcheritem)[i], ButcherKeys))])

list_butcher_items_raw ==
    IF ~db THEN Fail("list_butcher_items_raw", <<>>, 500)
    ELSE Reply("list_butcher_items_raw", <<>>, Serialized(get_documents(butcheritem)))

create_butcher_item(item, password) ==
    LET req == [item |-> item, password |-> password] IN
    IF ~ButcherItemValid(item) THEN Fail("create_butcher_item", req, 422)
    ELSE IF ~verify_admin(password) THEN Fail("create_butcher_item", req, 401)
    ELSE IF ~db THEN Fail("create_butcher_item", req, 500)
    ELSE /\ Stored < MaxDocs
         /\ butcheritem' = create_document(butcheritem, ButcherItem(item))
         /\ last' = Response("create_butcher_item", req, 200, <<>>,
                             str(ObjectId(Len(butcheritem) + 1)), "-")
         /\ pre' = Snapshot
         /\ UNCHANGED <<db, groceryitem, order>>

list_grocery_items ==
    IF ~db THEN Fail("list_grocery_items", <<>>, 500)
    ELSE Reply("list_grocery_items", <<>>,
               [i \in 1..Len(get_documents(groceryitem)) |->
                   GroceryItem(Project(get_documents(groceryitem)[i], GroceryKeys))])

list_grocery_items_raw ==
    IF ~db THEN Fail("list_grocery_items_raw", <<>>, 500)
    ELSE Reply("list_grocery_items_raw", <<>>, Serialized(get_documents(groceryitem)))

create_grocery_item(item, password) ==
    LET req == [item |-> item, password |-> password] IN
    IF ~GroceryItemValid(item) THEN Fail("create_grocery_item", req, 422)
    ELSE IF ~verify_admin(password) THEN Fail("create_grocery_item", req, 401)
    ELSE IF ~db THEN Fail("create_grocery_item", req, 500)
    ELSE /\ Stored < MaxDocs
         /\ groceryitem' = create_document(groceryitem, GroceryItem(item))
         /\ last' = Response("create_grocery_item", req, 200, <<>>,
                             str(ObjectId(Len(groceryitem) + 1)), "-")
         /\ pre' = Snapshot
         /\ UNCHANGED <<db, butcheritem, order>>

\* ------------------------------------------------------------------ orders

SupportedPayment(method) == method \in {"Cash on Delivery", "Card on Delivery"}

\* Variant: the handler takes the body as an untyped dict and stores it
\* without the payment method check.
create_order_Unvalidated(p) ==
    LET req == [order |-> p] IN
    IF ~db THEN Fail("create_order", req, 500)
    ELSE /\ Stored < MaxDocs
         /\ order' = create_document(order, Order(p))
         /\ last' = Response("create_order", req, 200, <<>>,
                             str(ObjectId(Len(order) + 1)), "-")
         /\ pre' = Snapshot
         /\ UNCHANGED <<db, butcheritem, groceryitem>>

create_order(p) ==
    LET req == [order |-> p] IN
    IF ~OrderValid(p) THEN Fail("create_order", req, 422)
    ELSE IF ~SupportedPayment(Order(p).payment_method)
         THEN Fail("create_order", req, 400)
    ELSE IF ~db THEN Fail("create_order", req, 500)
    ELSE /\ Stored < MaxDocs
         /\ order' = create_document(order, Order(p))
         /\ last' = Response("create_order", req, 200, <<>>,
                             str(ObjectId(Len(order) + 1)), "-")
         /\ pre' = Snapshot
         /\ UNCHANGED <<db, butcheritem, groceryitem>>

list_orders(auth_password) ==
    LET req == [password |-> auth_password] IN
    IF ~verify_admin(auth_password) THEN Fail("list_orders", req, 401)
    ELSE IF ~db THEN Fail("list_orders", req, 500)
    ELSE Reply("list_orders", req, Serialized(get_documents(order)))

\* Variant: no status whitelist.
ValidStatus_Any(status) == TRUE

ValidStatus(status) ==
    status \in {"Pending", "Confirmed", "Ready for Pickup", "Delivered"}

\* Variant: a Delivered order is terminal and the update raises.
TryUpdate_Terminal(order_id) ==
    IF ~ObjectIdValid(order_id) THEN "InvalidId"
    ELSE IF matched_count(order, ObjectIdOf(order_id)) = 0 THEN "HTTPException404"
    ELSE IF order[FirstMatch(order, ObjectIdOf(order_id))].status = "Delivered"
         THEN "HTTPException409"
    ELSE "ok"

\* The try block of update_order_status: what it raises, or "ok".
TryUpdate(order_id) ==
    IF ~ObjectIdValid(order_id) THEN "InvalidId"
    ELSE IF matched_count(order, ObjectIdOf(order_id)) = 0 THEN "HTTPException404"
    ELSE "ok"

\* except Exception: every exception raised in the try block, the 404
\* HTTPException included, is replaced by the 400 "Invalid order id".
ExceptCode(raised) == IF raised = "ok" THEN 200 ELSE 400

\* Variant: the status whitelist is checked before the password.
UpdateCode_StatusFirst(order_id, password, status) ==
    IF ~ValidStatus(status) THEN 400
    ELSE IF ~verify_admin(password) THEN 401
    ELSE IF ~db THEN 500
    ELSE ExceptCode(TryUpdate(order_id))

\* The status code update_order_status answers with.
UpdateCode(order_id, password, status) ==
    IF ~verify_admin(password) THEN 401
    ELSE IF ~ValidStatus(status) THEN 400
    ELSE IF ~db THEN 500
    ELSE ExceptCode(TryUpdate(order_id))

update_order_status(order_id, password, status) ==
    LET req == [order_id |-> order_id, password |-> password, status |-> status] IN
    IF UpdateCode(order_id, password, status) # 200
    THEN Fail("update_order_status", req, UpdateCode(order_id, password, status))
    ELSE /\ order' = update_one(order, ObjectIdOf(order_id), status)
         /\ last' = Response("update_order_status", req, 200, <<>>, NoId,
                             order[FirstMatch(order, ObjectIdOf(order_id))].status)
         /\ pre' = Snapshot
         /\ UNCHANGED <<db, butcheritem, groceryitem>>

\* ----------------------------------------------------------- specification

Next ==
    \/ list_butcher_items
    \/ list_butcher_items_raw
    \/ \E item \in ButcherPayloads, password \in Passwords :
           create_butcher_item(item, password)
    \/ list_grocery_items
    \/ list_grocery_items_raw
    \/ \E item \in GroceryPayloads, password \in Passwords :
           create_grocery_item(item, password)
    \/ \E p \in OrderPayloads : create_order(p)
    \/ \E password \in Passwords : list_orders(password)
    \/ \E order_id \in OrderIds, password \in Passwords, status \in StatusInputs :
           update_order_status(order_id, password, status)

Spec == Init /\ [][Next]_vars

\* ------------------------------------------------------------- properties

Unchanged == pre = Snapshot

IsUpdate == last.op = "update_order_status"

TargetIn(coll) ==
    IF ObjectIdValid(last.req.order_id)
    THEN Matching(coll, ObjectIdOf(last.req.order_id))
    ELSE {}

\* C1: every order accepted by create_order is stored with status "Pending",
\* whatever status the request body supplied.
C1_FreshOrderPending ==
    (last.op = "create_order" /\ last.code = 200) =>
        order[Len(order)].status = "Pending"

\* C2: update_order_status with a password other than the admin password
\* answers 401 and leaves every collection as it was, for every order id and
\* every requested status, whether or not the store is connected.
C2_WrongSecretRejected ==
    (IsUpdate /\ last.req.password # admin_pw) =>
        (last.code = 401 /\ Unchanged)

C2_Witness ==
    /\ IsUpdate
    /\ last.req.password # admin_pw
    /\ last.req.status \notin StatusLabels
    /\ TargetIn(order) # {}
    /\ last.code = 401

\* C3: update_order_status with the admin password and a status outside the
\* four labels answers 400 and leaves every collection as it was, whether or
\* not the order id exists.
C3_InvalidStatusRejected ==
    (IsUpdate /\ last.req.password = admin_pw /\ last.req.status \notin StatusLabels) =>
        (last.code = 400 /\ Unchanged)

C3_Witness ==
    /\ IsUpdate
    /\ last.req.password = admin_pw
    /\ last.req.status \notin StatusLabels
    /\ TargetIn(order) # {}
    /\ last.code = 400

\* C4: with the store connected, update_order_status with the admin
\* password, a valid status and a well-formed id that matches no stored order
\* answers 404 and leaves every collection as it was.
C4_MissingOrderNotFound ==
    ( /\ IsUpdate
      /\ db
      /\ last.req.password = admin_pw
      /\ last.req.status \in StatusLabels
      /\ ObjectIdValid(last.req.order_id)
      /\ TargetIn(pre.order) = {} ) =>
        (last.code = 404 /\ Unchanged)

\* C5: create_order with a payment_method other than the two supported ones
\* answers a 4xx code, returns no id and leaves every collection as it was.
C5_UnsupportedPaymentRejected ==
    ( /\ last.op = "create_order"
      /\ Has(last.req.order, "payment_method")
      /\ last.req.order.payment_method \notin PaymentMethods ) =>
        (last.code \in 400..499 /\ last.id = NoId /\ Unchanged)

C5_Witness ==
    /\ last.op = "create_order"
    /\ db
    /\ last.req.order.payment_method = "Bitcoin"
    /\ last.code \in 400..499
    /\ Stored < MaxDocs

AdminOther == {"create_butcher_item", "create_grocery_item", "list_orders"}

BodyValid ==
    CASE last.op = "create_butcher_item" -> ButcherItemValid(last.req.item)
      [] last.op = "create_grocery_item" -> GroceryItemValid(last.req.item)
      [] OTHER -> TRUE

VisibleEqual(doc, item, priceKey) ==
    /\ doc.title = item.title
    /\ doc[priceKey] = item[priceKey]
    /\ doc.description = (IF Has(item, "description") THEN item.description ELSE NoneStr)
    /\ doc.available = (IF Has(item, "available") THEN item.available ELSE TRUE)
    /\ doc.image = (IF Has(item, "image") THEN item.image ELSE NoneStr)

CreatedOne(now, before, priceKey) ==
    /\ last.code = 200
    /\ Len(Serialized(get_documents(now))) = Len(before) + 1
    /\ SubSeq(Serialized(get_documents(now)), 1, Len(before)) = Serialized(before)
    /\ VisibleEqual(Serialized(get_documents(now))[Len(before) + 1], last.req.item, priceKey)
    /\ Serialized(get_documents(now))[Len(before) + 1]._id = last.id

\* C7: with the store connected, a schema-valid butcher or grocery item and
\* the admin password, the raw list of that kind after the create is the raw
\* list before it plus one document whose title, description, price,
\* available and image are the input's (absent optional fields at their
\* defaults); the other catalog and the orders are as before; and a raw list
\* request answers with exactly the stored documents, serialized.
C7_CreateThenListRaw ==
    /\ ( /\ last.op = "create_butcher_item"
         /\ db
         /\ ButcherItemValid(last.req.item)
         /\ last.req.password = admin_pw ) =>
           /\ CreatedOne(butcheritem, pre.butcheritem, "price_per_kg")
           /\ groceryitem = pre.groceryitem
           /\ order = pre.order
    /\ ( /\ last.op = "create_grocery_item"
         /\ db
         /\ GroceryItemValid(last.req.item)
         /\ last.req.password = admin_pw ) =>
           /\ CreatedOne(groceryitem, pre.groceryitem, "price")
           /\ butcheritem = pre.butcheritem
           /\ order = pre.order
    /\ (last.op = "list_butcher_items_raw" /\ last.code = 200) =>
           (last.body = Serialized(butcheritem) /\ Unchanged)
    /\ (last.op = "list_grocery_items_raw" /\ last.code = 200) =>
           (last.body = Serialized(groceryitem) /\ Unchanged)

C7_Witness ==
    /\ last.op = "create_grocery_item"
    /\ last.code = 200
    /\ ~Has(last.req.item, "description")
    /\ Len(groceryitem) = 2
    /\ groceryitem[1].title # groceryitem[2].title

\* C8: update_order_status with the admin password, a valid label and the id
\* of a stored order answers 200 whatever the order's status was, the order
\* then has the requested status and list_orders shows it; and in every
\* state each stored order can be moved to each of the four labels.
C8_AnyStatusToAnyStatus ==
    /\ ( /\ IsUpdate
         /\ last.req.password = admin_pw
         /\ last.req.status \in StatusLabels
         /\ TargetIn(pre.order) # {} ) =>
           /\ last.code = 200
           /\ last.was \in StatusLabels
           /\ \A i \in TargetIn(pre.order) :
                 /\ pre.order[i].status = last.was
                 /\ order[i].status = last.req.status
                 /\ Serialized(get_documents(order))[i].status = last.req.status
    /\ (last.op = "list_orders" /\ last.code = 200) =>
           last.body = Serialized(order)
    /\ \A i \in 1..Len(order) : \A s \in StatusLabels :
           ENABLED ( /\ update_order_status(str(order[i]._id), admin_pw, s)
                     /\ last'.code = 200
                     /\ order'[i].status = s )

C8_Witness ==
    /\ IsUpdate
    /\ last.code = 200
    /\ last.was = "Delivered"
    /\ last.req.status = "Pending"

\* C9: no operation removes a stored order or catalog document; a stored
\* order changes only in a successful update_order_status that targets it,
\* and then only in status and updated_at (which becomes None); catalog
\* documents never change.
C9_OnlyStatusMutates ==
    /\ Len(order) >= Len(pre.order)
    /\ Len(butcheritem) >= Len(pre.butcheritem)
    /\ Len(groceryitem) >= Len(pre.groceryitem)
    /\ \A i \in 1..Len(pre.butcheritem) : butcheritem[i] = pre.butcheritem[i]
    /\ \A i \in 1..Len(pre.groceryitem) : groceryitem[i] = pre.groceryitem[i]
    /\ \A i \in 1..Len(pre.order) :
          \/ order[i] = pre.order[i]
          \/ /\ IsUpdate
             /\ last.code = 200
             /\ i \in TargetIn(pre.order)
             /\ order[i] = [pre.order[i] EXCEPT !.status = last.req.status,
                                                !.updated_at = NoneTime]

C9_Witness ==
    /\ IsUpdate
    /\ last.code = 200
    /\ Len(order) = 2
    /\ \E i \in TargetIn(pre.order) :
          /\ order[i].status # pre.order[i].status
          /\ order[i].updated_at = NoneTime
          /\ pre.order[i].updated_at = Now
          /\ order[i].total = pre.order[i].total
          /\ \E j \in 1..Len(order) : j # i /\ order[j].updated_at = Now

\* C10: every stored order has one of the four status labels and one of
\* the two supported payment methods.
C10_StoredOrdersWellFormed ==
    \A i \in 1..Len(order) :
        /\ order[i].status \in StatusLabels
        /\ order[i].payment_method \in PaymentMethods

C10_Witness ==
    /\ Len(order) = 2
    /\ order[1].status = "Ready for Pickup"
    /\ order[1].payment_method = "Cash on Delivery"
    /\ order[2].payment_method = "Card on Delivery"
    /\ IsUpdate
    /\ last.code = 400

====
